---- MODULE Spec2Model ----
(***************************************************************************)
(* Model of Recap-photo-processing.py: a sequential batch pipeline that    *)
(* reads posts.json, copies/converts each post's two source images into    *)
(* the output folder, stamps metadata, composes a combined picture and     *)
(* finally purges backup files.                                            *)
(*                                                                         *)
(* A file name is a sequence of one-character strings, so that pathlib's   *)
(* stem / suffix / with_suffix / with_name are computed as pathlib         *)
(* computes them.  A path is <<folder, name>>.  The filesystem is a        *)
(* function from the existing paths to their contents.                     *)
(***************************************************************************)
EXTENDS Integers, Sequences, FiniteSets, TLC

VARIABLES
    fs,          \* the filesystem: existing path |-> content
    fs0,         \* the filesystem when the run started (never changes)
    manifest,    \* posts.json on disk: "missing", "unparsable" or "ok"
    data,        \* the parsed manifest: a sequence of entries
    faults,      \* which metadata library raises during this run
    pc,          \* position of process_files
    idx,         \* number of manifest entries already iterated
    trace,       \* what the run did: library calls, creations, log lines
    ret,         \* last value returned by get_unique_filename (SpecUnique)
    arg          \* last argument given to get_unique_filename (SpecUnique)

vars == <<fs, fs0, manifest, data, faults, pc, idx, trace, ret, arg>>

-----------------------------------------------------------------------------
(* Bounds of the model *)

\* longest manifest
MaxEntries == 2
\* how many names of the series a.jpg, a_1.jpg, ... (and of the combined
\* series) may already exist in the output folders before the run
MaxPre == 1
\* calls of get_unique_filename in SpecUnique
MaxCalls == 3

-----------------------------------------------------------------------------
(* Folders, line 44-47 *)

PHOTO_FOLDER == "Photos/post"
OUTPUT_FOLDER == "Photos/post/__processed"
COMBINED_FOLDER == "Photos/post/__combined"

-----------------------------------------------------------------------------
(* pathlib *)

\* the last index of character c in name, 0 when absent: str.rfind + 1
RECURSIVE RFindFrom(_, _, _)
RFindFrom(name, c, i) ==
    IF i = 0 THEN 0
    ELSE IF name[i] = c THEN i
    ELSE RFindFrom(name, c, i - 1)

RFind(name, c) == RFindFrom(name, c, Len(name))

\* PurePath.suffix: from the last dot, unless the dot is first or last
Suffix(name) ==
    LET i == RFind(name, ".")
    IN  IF 1 < i /\ i < Len(name) THEN SubSeq(name, i, Len(name)) ELSE <<>>

\* PurePath.stem
Stem(name) ==
    LET i == RFind(name, ".")
    IN  IF 1 < i /\ i < Len(name) THEN SubSeq(name, 1, i - 1) ELSE name

\* PurePath.with_suffix
WithSuffix(path, suffix) ==
    LET name == path[2]
        old  == Suffix(name)
    IN  <<path[1], SubSeq(name, 1, Len(name) - Len(old)) \o suffix>>

\* PurePath.with_name
WithName(path, name) == <<path[1], name>>

\* folder / name
Join(folder, name) == <<folder, name>>

\* Path(s).name: the final component of a manifest path
BaseName(p) == p[2]

\* Path.exists
Exists(files, path) == path \in DOMAIN files

DigitChar(d) ==
    CASE d = 0 -> "0" [] d = 1 -> "1" [] d = 2 -> "2" [] d = 3 -> "3"
      [] d = 4 -> "4" [] d = 5 -> "5" [] d = 6 -> "6" [] d = 7 -> "7"
      [] d = 8 -> "8" [] d = 9 -> "9"

\* str(n) for n >= 0
RECURSIVE Str(_)
Str(n) == IF n < 10 THEN <<DigitChar(n)>> ELSE Str(n \div 10) \o <<DigitChar(n % 10)>>

\* n formatted with at least w digits, zero padded (strftime's %m, %d, ...)
RECURSIVE Pad(_, _)
Pad(n, w) == IF w <= 1 THEN Str(n) ELSE
             LET s == Str(n) IN
             IF Len(s) >= w THEN s ELSE <<"0">> \o Pad(n, w - 1)

\* name matches the glob pattern '*~'
IsBackupName(name) == Len(name) > 0 /\ name[Len(name)] = "~"

-----------------------------------------------------------------------------
(* get_unique_filename, line 52-59 *)

RECURSIVE UniqueLoop(_, _, _, _)
UniqueLoop(files, path, unique_path, counter) ==
    IF Exists(files, unique_path)
    THEN UniqueLoop(files, path,
             WithName(path, Stem(path[2]) \o <<"_">> \o Str(counter) \o Suffix(path[2])),
             counter + 1)
    ELSE unique_path

\* a plausible slip: the counter starts at 0, so the first name tried is stem_0
UniqueFromZero(files, path) == UniqueLoop(files, path, path, 0)

\* a plausible slip: `if` instead of `while`, one probe only
UniqueProbeOnce(files, path) ==
    IF Exists(files, path)
    THEN WithName(path, Stem(path[2]) \o <<"_">> \o Str(1) \o Suffix(path[2]))
    ELSE path

get_unique_filename(files, path) == UniqueLoop(files, path, path, 1)

-----------------------------------------------------------------------------
(* File names and contents of the bounded environment *)

WEBP == <<".", "w", "e", "b", "p">>
JPG == <<".", "j", "p", "g">>

A_WEBP == <<"a">> \o WEBP
A_JPG == <<"a">> \o JPG
\* a source whose name ends in '~'
A_BAK == A_JPG \o <<"~">>
\* a directory in the output folder whose name matches '*~'
D_DIR == <<"d", "~">>

SourceNames == {A_WEBP, A_JPG, A_BAK}

\* a content is <<kind, how it came to be, name it came from>>
Original(name) == <<"image", "original", name>>
Corrupt(name) == <<"corrupt", "original", name>>
PreExisting(name) == <<"image", "pre-existing", name>>
Directory(name) == <<"dir", "pre-existing", name>>

\* PIL can open and decode the content
Decodable(content) == content[1] = "image"

NoPath == <<"", <<>>>>
NoKey == <<>>

\* manifest timestamps: one in the expected format, one without the fraction
T_OK == <<"2", "0", "2", "3", "-", "0", "1", "-", "0", "2", "T",
          "0", "3", ":", "0", "4", ":", "0", "5", ".", "6", "7", "8", "Z">>
T_BAD == <<"2", "0", "2", "3", "-", "0", "1", "-", "0", "2", "T",
           "0", "3", ":", "0", "4", ":", "0", "5", "Z">>

-----------------------------------------------------------------------------
(* datetime.strptime(s, "%Y-%m-%dT%H:%M:%S.%fZ") and strftime, line 142, 159 *)

DigitValue(c) ==
    CASE c = "0" -> 0 [] c = "1" -> 1 [] c = "2" -> 2 [] c = "3" -> 3
      [] c = "4" -> 4 [] c = "5" -> 5 [] c = "6" -> 6 [] c = "7" -> 7
      [] c = "8" -> 8 [] c = "9" -> 9 [] OTHER -> -1

AllDigits(s) == \A k \in 1..Len(s) : DigitValue(s[k]) >= 0

RECURSIVE ParseInt(_)
ParseInt(s) == IF Len(s) = 0 THEN 0
               ELSE 10 * ParseInt(SubSeq(s, 1, Len(s) - 1)) + DigitValue(s[Len(s)])

\* two-digit fields, a 1 to 6 digit fraction, the literal separators
Strptime(s) ==
    LET n      == Len(s)
        shape  == /\ n >= 22 /\ n <= 27
                  /\ s[5] = "-" /\ s[8] = "-" /\ s[11] = "T"
                  /\ s[14] = ":" /\ s[17] = ":" /\ s[20] = "." /\ s[n] = "Z"
                  /\ AllDigits(SubSeq(s, 1, 4)) /\ AllDigits(SubSeq(s, 6, 7))
                  /\ AllDigits(SubSeq(s, 9, 10)) /\ AllDigits(SubSeq(s, 12, 13))
                  /\ AllDigits(SubSeq(s, 15, 16)) /\ AllDigits(SubSeq(s, 18, 19))
                  /\ AllDigits(SubSeq(s, 21, n - 1))
        dt     == [year   |-> ParseInt(SubSeq(s, 1, 4)),
                   month  |-> ParseInt(SubSeq(s, 6, 7)),
                   day    |-> ParseInt(SubSeq(s, 9, 10)),
                   hour   |-> ParseInt(SubSeq(s, 12, 13)),
                   minute |-> ParseInt(SubSeq(s, 15, 16)),
                   second |-> ParseInt(SubSeq(s, 18, 19))]
        range  == /\ dt.year >= 1 /\ dt.month \in 1..12 /\ dt.day \in 1..31
                  /\ dt.hour <= 23 /\ dt.minute <= 59 /\ dt.second <= 61
    IN  IF shape /\ range THEN [ok |-> TRUE, dt |-> dt]
        ELSE [ok |-> FALSE, dt |-> [year |-> 0, month |-> 0, day |-> 0,
                                    hour |-> 0, minute |-> 0, second |-> 0]]

\* taken_at.strftime('%Y%m%d_%H%M%S')
StrftimeCompact(dt) ==
    Pad(dt.year, 4) \o Pad(dt.month, 2) \o Pad(dt.day, 2) \o <<"_">>
    \o Pad(dt.hour, 2) \o Pad(dt.minute, 2) \o Pad(dt.second, 2)

\* f"{...}_combined.jpg"
CombinedName(dt) ==
    StrftimeCompact(dt) \o <<"_", "c", "o", "m", "b", "i", "n", "e", "d">> \o JPG

-----------------------------------------------------------------------------
(* The run state threaded through the functions: [fs, trace].  A trace     *)
(* event records one library call, one file creation or one log line.      *)

Ev(op, path, ok, entry) == [op |-> op, path |-> path, ok |-> ok, entry |-> entry]

St(files, events) == [fs |-> files, trace |-> events]

Log(s, event) == St(s.fs, Append(s.trace, event))

\* the value of a statement, written One({rest : x \in {statement}}): the
\* statement runs once and the rest reads its value as x
One(S) == CHOOSE r \in S : TRUE

\* files with path p holding content c (created, or overwritten)
Put(files, p, c) == [q \in DOMAIN files \cup {p} |-> IF q = p THEN c ELSE files[q]]

\* files without path p
Del(files, p) == [q \in DOMAIN files \ {p} |-> files[q]]

\* a sequence enumerating the finite set S
RECURSIVE SetToSeq(_)
SetToSeq(S) ==
    IF S = {} THEN <<>>
    ELSE One({ One({ <<x>> \o SetToSeq(rest)
                     : rest \in {S \ {x}} })
               : x \in {CHOOSE y \in S : TRUE} })

-----------------------------------------------------------------------------
(* remove_backup_files, line 65-72 *)

\* Path(directory).glob('*~')
Glob(files, directory) ==
    {p \in DOMAIN files : p[1] = directory /\ IsBackupName(p[2])}

\* unlink() raises on a directory
UnlinkFails(files, p) == files[p][1] = "dir"

\* one iteration of the for loop: the try/except around unlink
UnlinkOne(s, p) ==
    IF UnlinkFails(s.fs, p)
    THEN Log(s, Ev("error_remove", p, FALSE, 0))
    ELSE St(Del(s.fs, p), Append(s.trace, Ev("removed", p, TRUE, 0)))

\* a plausible slip: the try/except around the whole loop, so that the first
\* failed unlink ends the purge
RECURSIVE PurgeStopAtFailure(_, _)
PurgeStopAtFailure(s, todo) ==
    IF todo = <<>> THEN s
    ELSE IF UnlinkFails(s.fs, Head(todo))
         THEN Log(s, Ev("error_remove", Head(todo), FALSE, 0))
         ELSE One({ One({ PurgeStopAtFailure(s1, rest)
                          : rest \in {Tail(todo)} })
                    : s1 \in {UnlinkOne(s, Head(todo))} })

RECURSIVE PurgeLoop(_, _)
PurgeLoop(s, todo) ==
    IF todo = <<>> THEN s
    ELSE One({ One({ PurgeLoop(s1, rest)
                     : rest \in {Tail(todo)} })
               : s1 \in {UnlinkOne(s, Head(todo))} })

RemoveBackupStopAtFailure(s, directory) ==
    One({ One({ PurgeStopAtFailure(s1, todo)
                : todo \in {SetToSeq(Glob(s.fs, directory))} })
          : s1 \in {Log(s, Ev("purge", <<directory, <<>>>>, TRUE, 0))} })

remove_backup_files(s, directory) ==
    One({ One({ PurgeLoop(s1, todo)
                : todo \in {SetToSeq(Glob(s.fs, directory))} })
          : s1 \in {Log(s, Ev("purge", <<directory, <<>>>>, TRUE, 0))} })

-----------------------------------------------------------------------------
(* convert_webp_to_jpg, line 75-85: the new state and the returned path *)

\* img.convert('RGB').save(jpg_path, 'JPEG'); return jpg_path, line 80-82
ConvertSave(s, image_path, jpg_path, entry) ==
    [fs     |-> Put(s.fs, jpg_path, <<"image", "converted", image_path[2]>>),
     trace  |-> Append(s.trace,
                       Ev("convert_save", jpg_path, ~Exists(s.fs, jpg_path), entry)),
     result |-> jpg_path]

\* except Exception: logging.error; return None, line 83-85
ConvertError(s, image_path, entry) ==
    [fs     |-> s.fs,
     trace  |-> Append(s.trace, Ev("error_convert", image_path, FALSE, entry)),
     result |-> NoPath]

convert_webp_to_jpg(s, image_path, entry) ==
    One({ One({ IF Decodable(s.fs[image_path])
                THEN ConvertSave(s1, image_path, jpg_path, entry)
                ELSE ConvertError(s1, image_path, entry)
                : s1 \in {Log(s, Ev("convert", image_path, TRUE, entry))} })
          : jpg_path \in {WithSuffix(image_path, JPG)} })

-----------------------------------------------------------------------------
(* combine_images, line 87-101: the new state and whether it raised *)

\* Image.open(primary_path), Image.open(secondary_path) and the decoding
\* that resize and paste ask for, line 89-100
Opens(files, primary_path, secondary_path) ==
    /\ Exists(files, primary_path) /\ Decodable(files[primary_path])
    /\ Exists(files, secondary_path) /\ Decodable(files[secondary_path])

\* primary_image.save(output_path), line 101
CombineSave(s, primary_path, output_path, entry) ==
    [fs     |-> Put(s.fs, output_path, <<"image", "combined", primary_path[2]>>),
     trace  |-> Append(s.trace,
                       Ev("save", output_path, ~Exists(s.fs, output_path), entry)),
     raised |-> FALSE]

\* a plausible slip: a guard that returns quietly when a source is missing
CombineIgnoresMissing(s, primary_path, secondary_path, output_path, entry) ==
    One({ IF Opens(s.fs, primary_path, secondary_path)
          THEN CombineSave(s1, primary_path, output_path, entry)
          ELSE [fs |-> s1.fs, trace |-> s1.trace, raised |-> FALSE]
          : s1 \in {Log(s, Ev("compose", output_path, TRUE, entry))} })

combine_images(s, primary_path, secondary_path, output_path, entry) ==
    One({ IF Opens(s.fs, primary_path, secondary_path)
          THEN CombineSave(s1, primary_path, output_path, entry)
          ELSE [fs |-> s1.fs, trace |-> s1.trace, raised |-> TRUE]
          : s1 \in {Log(s, Ev("compose", output_path, TRUE, entry))} })

-----------------------------------------------------------------------------
(* update_metadata, line 104-126 *)

\* first try block, line 106-118: piexif.load ... piexif.insert
WriteExif(s, image_path, entry) ==
    One({ IF ok
          THEN Log(s, Ev("exif", image_path, TRUE, entry))
          ELSE Log(Log(s, Ev("exif", image_path, FALSE, entry)),
                   Ev("error_exif", image_path, FALSE, entry))
          : ok \in {Exists(s.fs, image_path) /\ "exif" \notin faults} })

\* second try block, line 120-126: IPTCInfo(...).save(), which moves the
\* file it replaces to <name>~ (the backup files line 65-72 is there for)
WriteIptc(s, image_path, entry) ==
    One({ IF ok
          THEN St(Put(s.fs, <<image_path[1], image_path[2] \o <<"~">>>>, s.fs[image_path]),
                  Append(s.trace, Ev("iptc", image_path, TRUE, entry)))
          ELSE Log(Log(s, Ev("iptc", image_path, FALSE, entry)),
                   Ev("error_iptc", image_path, FALSE, entry))
          : ok \in {Exists(s.fs, image_path) /\ "iptc" \notin faults} })

\* a plausible slip: one try block around both writes, so that a failed EXIF
\* write skips the IPTC write
UpdateMetadataOneTry(s, image_path, datetime_taken, entry) ==
    One({ IF s1.trace[Len(s1.trace)].op = "error_exif" THEN s1
          ELSE WriteIptc(s1, image_path, entry)
          : s1 \in {WriteExif(Log(s, Ev("update_metadata", image_path, TRUE, entry)),
                              image_path, entry)} })

update_metadata(s, image_path, datetime_taken, entry) ==
    One({ WriteIptc(s1, image_path, entry)
          : s1 \in {WriteExif(Log(s, Ev("update_metadata", image_path, TRUE, entry)),
                              image_path, entry)} })

-----------------------------------------------------------------------------
(* process_files, line 129-167 *)

\* shutil.copy2(image_path, new_path); update_metadata(new_path, ...),
\* line 155-156
CopyImage(s, image_path, new_path, taken_at, entry) ==
    One({ update_metadata(copied, new_path, taken_at, entry)
          : copied \in {St(Put(s.fs, new_path, s.fs[image_path]),
                           Append(s.trace,
                                  Ev("copy", new_path, ~Exists(s.fs, new_path), entry)))} })

\* new_path = get_unique_filename(new_path.with_suffix('.jpg'));
\* shutil.move(converted_path, new_path), line 151-153, then line 156
MoveConverted(c, new_path, taken_at, entry) ==
    One({ One({ update_metadata(moved, jpg_new, taken_at, entry)
                : moved \in {St(Del(Put(c.fs, jpg_new, c.fs[c.result]), c.result),
                                Append(c.trace,
                                       Ev("move", jpg_new, ~Exists(c.fs, jpg_new), entry)))} })
          : jpg_new \in {get_unique_filename(c.fs, WithSuffix(new_path, JPG))} })

\* the .webp branch, line 148-153, then line 156
ConvertImage(s, image_path, new_path, taken_at, entry) ==
    One({ IF c.result # NoPath
          THEN MoveConverted(c, new_path, taken_at, entry)
          ELSE update_metadata(St(c.fs, c.trace), new_path, taken_at, entry)
          : c \in {convert_webp_to_jpg(s, image_path, entry)} })

\* body of `for image_path in [primary, secondary]`, line 145-156
ProcessImage(s, image_path, taken_at, entry) ==
    IF ~Exists(s.fs, image_path) THEN s
    ELSE One({ IF Suffix(image_path[2]) = WEBP
               THEN ConvertImage(s, image_path, new_path, taken_at, entry)
               ELSE CopyImage(s, image_path, new_path, taken_at, entry)
               : new_path \in {get_unique_filename(s.fs,
                                                   Join(OUTPUT_FOLDER, image_path[2]))} })

\* the except clause of the per-entry try, line 163-164
EntryError(s, entry) == Log(s, Ev("error_entry", NoPath, FALSE, entry))

\* `# Combine images`, line 158-161
CombineEntry(s, primary, secondary, taken_at, entry) ==
    One({ One({ IF c.raised THEN EntryError(St(c.fs, c.trace), entry)
                ELSE update_metadata(St(c.fs, c.trace), combined_path, taken_at, entry)
                : c \in {combine_images(s, primary, secondary, combined_path, entry)} })
          : combined_path \in {get_unique_filename(s.fs,
                                   Join(COMBINED_FOLDER, CombinedName(taken_at)))} })

\* the try body once the entry's fields are read, line 144-161
ProcessImages(s, primary, secondary, taken_at, entry) ==
    One({ One({ CombineEntry(s2, primary, secondary, taken_at, entry)
                : s2 \in {ProcessImage(s1, secondary, taken_at, entry)} })
          : s1 \in {ProcessImage(s, primary, taken_at, entry)} })

\* the entry's fields, line 140-142: a missing key or a takenAt that does
\* not parse raises into the except clause
ReadEntry(s, e, entry) ==
    IF e.primary = NoKey \/ e.secondary = NoKey THEN EntryError(s, entry)
    ELSE One({ IF ~parsed.ok THEN EntryError(s, entry)
               ELSE One({ One({ One({ ProcessImages(s, primary, secondary, taken_at, entry)
                                      : taken_at \in {parsed.dt} })
                                : secondary \in {Join(PHOTO_FOLDER, BaseName(e.secondary))} })
                          : primary \in {Join(PHOTO_FOLDER, BaseName(e.primary))} })
               : parsed \in {Strptime(e.takenAt)} })

\* one iteration of `for entry in data`, line 138-164
ProcessEntry(s, entry) ==
    One({ One({ ReadEntry(s0, e, entry)
                : s0 \in {Log(s, Ev("entry", NoPath, TRUE, entry))} })
          : e \in {data[entry]} })

\* open() raises FileNotFoundError: logged, return, line 134-136
ManifestNotFound ==
    /\ pc = "load"
    /\ manifest = "missing"
    /\ trace' = Append(trace, Ev("error_json", NoPath, FALSE, 0))
    /\ pc' = "done"
    /\ UNCHANGED <<fs, fs0, manifest, data, faults, idx, ret, arg>>

\* open() or json.load() raises anything else: no except clause matches and
\* the exception leaves process_files, line 131-134
ManifestUnreadable ==
    /\ pc = "load"
    /\ manifest = "unparsable"
    /\ pc' = "raised"
    /\ UNCHANGED <<fs, fs0, manifest, data, faults, idx, trace, ret, arg>>

\* json.load() returns the list of entries, line 132-133
ManifestLoaded ==
    /\ pc = "load"
    /\ manifest = "ok"
    /\ pc' = "loop"
    /\ UNCHANGED <<fs, fs0, manifest, data, faults, idx, trace, ret, arg>>

\* a plausible slip: without the per-entry try, the first failing entry ends
\* the loop
IterateAbortOnError ==
    /\ pc = "loop"
    /\ idx < Len(data)
    /\ \E s \in {ProcessEntry(St(fs, trace), idx + 1)} :
           /\ fs' = s.fs
           /\ trace' = s.trace
           /\ idx' = idx + 1
           /\ pc' = IF s.trace[Len(s.trace)].op = "error_entry" THEN "raised" ELSE pc
    /\ UNCHANGED <<fs0, manifest, data, faults, ret, arg>>

\* the for loop takes the next entry, line 138-164
Iterate ==
    /\ pc = "loop"
    /\ idx < Len(data)
    /\ \E s \in {ProcessEntry(St(fs, trace), idx + 1)} :
           /\ fs' = s.fs
           /\ trace' = s.trace
    /\ idx' = idx + 1
    /\ UNCHANGED <<fs0, manifest, data, faults, pc, ret, arg>>

\* the loop is over: remove_backup_files(OUTPUT_FOLDER), line 166
PurgeOutput ==
    /\ pc = "loop"
    /\ idx = Len(data)
    /\ \E s \in {remove_backup_files(St(fs, trace), OUTPUT_FOLDER)} :
           /\ fs' = s.fs
           /\ trace' = s.trace
    /\ pc' = "purge_combined"
    /\ UNCHANGED <<fs0, manifest, data, faults, idx, ret, arg>>

\* remove_backup_files(COMBINED_FOLDER), line 167, and return
PurgeCombined ==
    /\ pc = "purge_combined"
    /\ \E s \in {remove_backup_files(St(fs, trace), COMBINED_FOLDER)} :
           /\ fs' = s.fs
           /\ trace' = s.trace
    /\ pc' = "done"
    /\ UNCHANGED <<fs0, manifest, data, faults, idx, ret, arg>>

-----------------------------------------------------------------------------
(* The environment a run starts in *)

\* a manifest path: the exporter's folder and the file name
ManifestPath(name) == <<"export/Photos/post", name>>

\* the entries a manifest is drawn from: a primary among the source names
\* and a secondary among a.webp and a.jpg with a well-formed timestamp, one
\* entry with a malformed timestamp, one entry without the "primary" key
Entries ==
    {[primary |-> ManifestPath(p), secondary |-> ManifestPath(q), takenAt |-> T_OK]
        : p \in SourceNames, q \in {A_WEBP, A_JPG}}
    \cup {[primary |-> ManifestPath(A_WEBP), secondary |-> ManifestPath(A_JPG),
           takenAt |-> T_BAD]}
    \cup {[primary |-> NoKey, secondary |-> ManifestPath(A_JPG), takenAt |-> T_OK]}

Manifests == UNION {[1..n -> Entries] : n \in 0..MaxEntries}

\* the name path carries after k - 1 collisions: path, stem_1, stem_2, ...
Numbered(path, k) ==
    IF k = 0 THEN path
    ELSE WithName(path, Stem(path[2]) \o <<"_">> \o Str(k) \o Suffix(path[2]))

\* input folders: a.jpg~ and any of a.webp and a.jpg, a.webp possibly
\* undecodable
InputFolders ==
    {[p \in {Join(PHOTO_FOLDER, n) : n \in present \cup {A_BAK}} |->
         IF p[2] \in corrupt THEN Corrupt(p[2]) ELSE Original(p[2])]
        : present \in SUBSET {A_WEBP, A_JPG}, corrupt \in SUBSET {A_WEBP}}

\* output folders before the run: empty, or the leftovers of earlier runs,
\* which are the first k names of the series a.jpg, a_1.jpg, ... in the
\* output folder, as many of the combined series in the combined folder,
\* and a directory d~ in the output folder
OutputFolders ==
    {[p \in {Numbered(Join(OUTPUT_FOLDER, A_JPG), j) : j \in 0..(k - 1)}
            \cup {Numbered(Join(COMBINED_FOLDER, CombinedName(Strptime(T_OK).dt)), j)
                     : j \in 0..(k - 1)}
            \cup (IF k > 0 THEN {Join(OUTPUT_FOLDER, D_DIR)} ELSE {}) |->
         IF p[2] = D_DIR THEN Directory(p[2]) ELSE PreExisting(p[2])]
        : k \in 0..MaxPre}

\* the union of two filesystems with disjoint domains
Merge(f, g) == [p \in DOMAIN f \cup DOMAIN g |-> IF p \in DOMAIN f THEN f[p] ELSE g[p]]

Init ==
    /\ manifest \in {"missing", "unparsable", "ok"}
    /\ data \in (IF manifest = "ok" THEN Manifests ELSE {<<>>})
    /\ \E i \in InputFolders, o \in OutputFolders : fs = Merge(i, o)
    /\ fs0 = fs
    /\ faults \in SUBSET {"exif", "iptc"}
    /\ pc = "load"
    /\ idx = 0
    /\ trace = <<>>
    /\ ret = NoPath
    /\ arg = NoPath

Next ==
    \/ ManifestNotFound
    \/ ManifestUnreadable
    \/ ManifestLoaded
    \/ Iterate
    \/ PurgeOutput
    \/ PurgeCombined

Spec == Init /\ [][Next]_vars

-----------------------------------------------------------------------------
(* get_unique_filename on its own: called on any of a few paths against    *)
(* any set of existing files, the returned name then being claimed.        *)

\* a name without extension, a hidden name (the dot is first: no suffix)
N_PLAIN == <<"n">>
N_HIDDEN == <<".", "h">>

UniqueArgs == {Join(OUTPUT_FOLDER, n) : n \in {A_JPG, N_PLAIN, N_HIDDEN}}

UniqueExisting ==
    {Numbered(Join(OUTPUT_FOLDER, A_JPG), j) : j \in 0..MaxPre}
    \cup {Numbered(Join(OUTPUT_FOLDER, N_PLAIN), j) : j \in 0..1}
    \cup {Join(OUTPUT_FOLDER, N_HIDDEN)}

InitUnique ==
    /\ \E S \in SUBSET UniqueExisting : fs = [p \in S |-> PreExisting(p[2])]
    /\ fs0 = fs
    /\ manifest = "ok"
    /\ data = <<>>
    /\ faults = {}
    /\ pc = "unique"
    /\ idx = 0
    /\ trace = <<>>
    /\ ret = NoPath
    /\ arg = NoPath

\* a call of get_unique_filename returns
UniqueCall ==
    /\ pc = "unique"
    /\ idx < MaxCalls
    /\ \E p \in UniqueArgs :
          /\ arg' = p
          /\ ret' = get_unique_filename(fs, p)
    /\ pc' = "returned"
    /\ idx' = idx + 1
    /\ UNCHANGED <<fs, fs0, manifest, data, faults, trace>>

\* the caller creates the file it asked a name for
UniqueClaim ==
    /\ pc = "returned"
    /\ fs' = Put(fs, ret, <<"image", "claimed", ret[2]>>)
    /\ pc' = "unique"
    /\ UNCHANGED <<fs0, manifest, data, faults, idx, trace, ret, arg>>

NextUnique == UniqueCall \/ UniqueClaim

SpecUnique == InitUnique /\ [][NextUnique]_vars

-----------------------------------------------------------------------------
(* Vocabulary of the properties *)

\* where the extension of name starts: at its last dot, unless that dot is
\* the first or the last character; past the end when there is none
ExtStart(name) ==
    LET dots == {i \in 1..Len(name) : name[i] = "."}
    IN  IF dots = {} THEN Len(name) + 1
        ELSE LET m == CHOOSE i \in dots : \A j \in dots : j <= i
             IN  IF m = 1 \/ m = Len(name) THEN Len(name) + 1 ELSE m

\* name with _k inserted before its extension
InsertCounter(name, k) ==
    SubSeq(name, 1, ExtStart(name) - 1) \o <<"_">> \o Str(k)
    \o SubSeq(name, ExtStart(name), Len(name))

\* positions of the trace
Pos == 1..Len(trace)

\* a file creation in the output or the combined folder: a copy, the move
\* of a converted file, the save of a composite
IsCreation(e) == e.op \in {"copy", "move", "save"}

Creations == {k \in Pos : IsCreation(trace[k])}

CreationsOf(i) == {k \in Creations : trace[k].entry = i}

InFolder(files, folder) == {p \in DOMAIN files : p[1] = folder}

\* entry i of the manifest is well formed: both paths and a takenAt that parses
WellFormed(i) ==
    /\ data[i].primary # NoKey
    /\ data[i].secondary # NoKey
    /\ Strptime(data[i].takenAt).ok

PrimaryOf(i) == Join(PHOTO_FOLDER, data[i].primary[2])
SecondaryOf(i) == Join(PHOTO_FOLDER, data[i].secondary[2])

\* the run is over, by return or by an exception leaving process_files
Ended == pc \in {"done", "raised"}

-----------------------------------------------------------------------------
(* C1 *)

\* C1: get_unique_filename(p) returns p when p does not exist; when p
\* exists it returns stem_k.ext in the same folder, k the lowest integer
\* >= 1 whose name does not exist; the returned path never exists at the
\* moment of return.
C1_UniqueLowestFree ==
    pc = "returned" =>
        /\ ~Exists(fs, ret)
        /\ ~Exists(fs, arg) => ret = arg
        /\ Exists(fs, arg) =>
              \E k \in 1..(Cardinality(DOMAIN fs) + 1) :
                  /\ ret = <<arg[1], InsertCounter(arg[2], k)>>
                  /\ \A j \in 1..(k - 1) : Exists(fs, <<arg[1], InsertCounter(arg[2], j)>>)

\* the path exists, and so do its first two numbered names: _3 is returned
C1_Witness ==
    /\ pc = "returned"
    /\ Exists(fs, arg)
    /\ ret = <<arg[1], InsertCounter(arg[2], 3)>>

-----------------------------------------------------------------------------
(* C2 *)

\* C2: every file created in the output or the combined folder by a copy,
\* by the move of a converted file or by the save of a composite is created
\* at a path that did not exist just before: no two creations of a run hit
\* the same path, and every file that was in those folders before the run
\* (and that the purge does not match) is still there with its content.
C2_NoOverwrite ==
    /\ \A k \in Creations :
          /\ trace[k].ok
          /\ trace[k].path[1] \in {OUTPUT_FOLDER, COMBINED_FOLDER}
          /\ \A j \in Creations : j < k => trace[j].path # trace[k].path
    /\ \A p \in InFolder(fs0, OUTPUT_FOLDER) \cup InFolder(fs0, COMBINED_FOLDER) :
          ~IsBackupName(p[2]) => Exists(fs, p) /\ fs[p] = fs0[p]

\* a.jpg was in the output folder, the run created a_1.jpg and then a_2.jpg
C2_Witness ==
    /\ Exists(fs0, Join(OUTPUT_FOLDER, A_JPG))
    /\ \E j, k \in Creations :
          /\ j < k
          /\ trace[j].path = Join(OUTPUT_FOLDER, InsertCounter(A_JPG, 1))
          /\ trace[k].path = Join(OUTPUT_FOLDER, InsertCounter(A_JPG, 2))

-----------------------------------------------------------------------------
(* C3 *)

\* the entries are taken once each, in manifest order, all of them before
\* the run ends, and every event of entry i lies in entry i's stretch
EntriesInOrder ==
    /\ \A i \in 1..idx : Cardinality({k \in Pos : trace[k].op = "entry" /\ trace[k].entry = i}) = 1
    /\ \A k \in Pos : trace[k].entry <= idx
    /\ \A k \in Pos : trace[k].op = "entry" =>
          trace[k].entry = 1 + (IF k = 1 THEN 0 ELSE trace[k - 1].entry)
    /\ \A k \in Pos : (k > 1 /\ trace[k].op # "entry" /\ trace[k].entry > 0) =>
          trace[k - 1].entry = trace[k].entry
    /\ (manifest = "ok" /\ pc \in {"purge_combined", "done", "raised"}) => idx = Len(data)
    /\ pc = "raised" => manifest = "unparsable"

\* entry i logged an error at the per-entry boundary (line 163-164)
LoggedAtBoundary(i) == \E k \in Pos : trace[k].op = "error_entry" /\ trace[k].entry = i

\* a step of entry i raised into the body of the per-entry try: a key is
\* missing, takenAt does not parse, or compose was called and saved nothing
RaisedInEntry(i) ==
    \/ ~WellFormed(i)
    \/ /\ \E k \in Pos : trace[k].op = "compose" /\ trace[k].entry = i
       /\ ~\E k \in Pos : trace[k].op = "save" /\ trace[k].entry = i

\* a conversion or a metadata write of entry i failed
FailedInCallee(i) ==
    \/ \E k \in Pos : /\ trace[k].op = "convert" /\ trace[k].entry = i
                      /\ trace[k + 1].op # "convert_save"
    \/ \E k \in Pos : trace[k].op \in {"exif", "iptc"} /\ trace[k].entry = i /\ ~trace[k].ok

\* the callee's own except clause logged the failure at position k + 1
CalleeLogged(k) ==
    /\ k + 1 <= Len(trace)
    /\ trace[k + 1].op = (CASE trace[k].op = "convert" -> "error_convert"
                            [] trace[k].op = "exif" -> "error_exif"
                            [] trace[k].op = "iptc" -> "error_iptc")
    /\ trace[k + 1].entry = trace[k].entry

\* C3 as stated: every entry once and in order, and a failure in any step
\* of entry i (conversion and metadata included) is caught and logged at
\* the per-entry boundary.
C3_Original ==
    /\ EntriesInOrder
    /\ \A i \in 1..idx : (RaisedInEntry(i) \/ FailedInCallee(i)) => LoggedAtBoundary(i)

\* C3 amended: every entry once and in order; a failure of path resolution,
\* takenAt parsing or compose is caught and logged at the per-entry
\* boundary, as the last thing entry i does; a failed conversion or
\* metadata write is caught and logged where it happens and reaches the
\* boundary never; entry i + 1 is processed in every case.
C3_EntriesIsolated ==
    /\ EntriesInOrder
    /\ \A i \in 1..idx :
          /\ RaisedInEntry(i) <=> LoggedAtBoundary(i)
          /\ Cardinality({k \in Pos : trace[k].op = "error_entry" /\ trace[k].entry = i}) <= 1
          /\ \A k \in Pos : (trace[k].op = "error_entry" /\ trace[k].entry = i) =>
                \A j \in Pos : j > k => trace[j].entry # i
    /\ \A k \in Pos :
          (\/ trace[k].op = "convert" /\ trace[k + 1].op # "convert_save"
           \/ trace[k].op \in {"exif", "iptc"} /\ ~trace[k].ok)
          => CalleeLogged(k)

\* entry 1 failed at the boundary, entry 2 failed in a metadata write only,
\* and the run went on to its end
C3_Witness ==
    /\ pc = "done"
    /\ Len(data) = 2
    /\ LoggedAtBoundary(1)
    /\ FailedInCallee(2) /\ ~LoggedAtBoundary(2)
    /\ \E k \in CreationsOf(2) : trace[k].op = "save"

-----------------------------------------------------------------------------
(* C4 *)

\* C4: when the manifest is missing or unreadable, process_files logs an
\* error and ends the run at once: no entry is processed and nothing
\* changes in the folders.
C4_Claim ==
    (manifest # "ok" /\ pc # "load") =>
        /\ Ended
        /\ \E k \in Pos : trace[k].op = "error_json"
        /\ ~\E k \in Pos : trace[k].op = "entry"
        /\ fs = fs0

-----------------------------------------------------------------------------
(* C5 *)

PurgePos(folder) == {k \in Pos : trace[k].op = "purge" /\ trace[k].path[1] = folder}

\* the backup-named files of the two output folders
BackupsLeft ==
    {p \in InFolder(fs, OUTPUT_FOLDER) \cup InFolder(fs, COMBINED_FOLDER) : IsBackupName(p[2])}

FailedDeletions == {trace[k].path : k \in {j \in Pos : trace[j].op = "error_remove"}}

\* C5: in a run that iterates the manifest the purge runs once for the
\* output folder and then once for the combined folder, after the last
\* entry, however many entries failed; a failed deletion does not stop the
\* others: at the end the backup-named files left are exactly those whose
\* deletion failed (none, when no deletion fails).
C5_PurgeOnceAtEnd ==
    /\ Cardinality(PurgePos(OUTPUT_FOLDER)) <= 1
    /\ Cardinality(PurgePos(COMBINED_FOLDER)) <= 1
    /\ \A k \in PurgePos(OUTPUT_FOLDER) \cup PurgePos(COMBINED_FOLDER) :
          /\ idx = Len(data)
          /\ \A j \in Pos : trace[j].entry > 0 => j < k
    /\ \A k \in PurgePos(COMBINED_FOLDER) : \E j \in PurgePos(OUTPUT_FOLDER) : j < k
    /\ (manifest = "ok" /\ pc = "done") =>
          /\ Cardinality(PurgePos(OUTPUT_FOLDER)) = 1
          /\ Cardinality(PurgePos(COMBINED_FOLDER)) = 1
          /\ BackupsLeft = FailedDeletions

\* an entry failed, one deletion failed, and two backups were deleted all
\* the same after the run's last entry
C5_Witness ==
    /\ pc = "done"
    /\ \E k \in Pos : trace[k].op = "error_entry"
    /\ FailedDeletions # {}
    /\ Cardinality({k \in Pos : trace[k].op = "removed"}) >= 2

-----------------------------------------------------------------------------
(* C6 *)

\* C6: every call of update_metadata attempts the EXIF write and then the
\* IPTC write on the same file, the second whatever the first came to; a
\* failure of either is logged by update_metadata and does not reach the
\* caller (the per-entry boundary logs only after "entry" or "compose").
C6_BothWritesAttempted ==
    /\ \A k \in Pos : trace[k].op = "update_metadata" =>
          LET p == trace[k].path
              j == IF k + 1 <= Len(trace) /\ trace[k + 1].ok THEN k + 2 ELSE k + 3
          IN  /\ k + 1 <= Len(trace)
              /\ trace[k + 1].op = "exif" /\ trace[k + 1].path = p
              /\ ~trace[k + 1].ok => trace[k + 2].op = "error_exif"
              /\ j <= Len(trace)
              /\ trace[j].op = "iptc" /\ trace[j].path = p
              /\ ~trace[j].ok => (j + 1 <= Len(trace) /\ trace[j + 1].op = "error_iptc")
    /\ \A k \in Pos : trace[k].op \in {"exif", "iptc"} =>
          \E j \in 1..k : trace[j].op = "update_metadata" /\ trace[j].path = trace[k].path
    /\ \A k \in Pos : trace[k].op = "error_entry" =>
          k > 1 /\ trace[k - 1].op \in {"entry", "compose"}

\* the EXIF write failed on a file and the IPTC write of the same call
\* went through
C6_Witness ==
    \E k \in Pos :
        /\ trace[k].op = "exif" /\ ~trace[k].ok
        /\ k + 2 <= Len(trace)
        /\ trace[k + 2].op = "iptc" /\ trace[k + 2].ok
        /\ trace[k + 2].path = trace[k].path

-----------------------------------------------------------------------------
(* C7 *)

\* update_metadata is called on the file created at position k, for the
\* same entry
Stamped(k) ==
    /\ k + 1 <= Len(trace)
    /\ trace[k + 1].op = "update_metadata"
    /\ trace[k + 1].path = trace[k].path
    /\ trace[k + 1].entry = trace[k].entry

\* C7: an entry with a valid takenAt whose two source files exist in the
\* input folder, whatever their names, and no codec or metadata failure,
\* adds one new file per source image to the output folder and one new
\* ..._combined.jpg to the combined folder, each then stamped.  Stated for
\* the first entry, whose input folder is the one the run started with.
C7_Claim ==
    (/\ idx >= 1
     /\ WellFormed(1)
     /\ Exists(fs0, PrimaryOf(1)) /\ Decodable(fs0[PrimaryOf(1)])
     /\ Exists(fs0, SecondaryOf(1)) /\ Decodable(fs0[SecondaryOf(1)])
     /\ faults = {})
    =>
        /\ Cardinality({k \in CreationsOf(1) : trace[k].path[1] = OUTPUT_FOLDER}) = 2
        /\ Cardinality({k \in CreationsOf(1) : trace[k].path[1] = COMBINED_FOLDER}) = 1
        /\ \A k \in CreationsOf(1) : Stamped(k)

-----------------------------------------------------------------------------
(* C8 *)

\* C8: every file the run created in the output or the combined folder as
\* a converted or copied image or as a composite still exists when the run
\* ends.
C8_Claim ==
    pc = "done" => \A k \in Creations : Exists(fs, trace[k].path)

-----------------------------------------------------------------------------
(* C9 *)

\* the first entry names a primary that is not in the input folder and a
\* secondary that is
C9_Case ==
    /\ idx >= 1
    /\ data[1].primary # NoKey /\ data[1].secondary # NoKey
    /\ ~Exists(fs0, PrimaryOf(1))
    /\ Exists(fs0, SecondaryOf(1))

\* what C9 says of such an entry: one file, the secondary's, is created in
\* the output folder and stamped; compose is attempted and fails; nothing
\* appears in the combined folder; the failure is logged at the boundary;
\* the entries after it are processed
C9_Outcome ==
    /\ Cardinality({k \in CreationsOf(1) : trace[k].path[1] = OUTPUT_FOLDER}) = 1
    /\ \A k \in CreationsOf(1) :
          /\ trace[k].path[1] = OUTPUT_FOLDER
          /\ Stamped(k)
          /\ (idx = 1 /\ pc = "loop") =>
                /\ Exists(fs, trace[k].path)
                /\ fs[trace[k].path][3] = SecondaryOf(1)[2]
    /\ \E k \in Pos : trace[k].op = "compose" /\ trace[k].entry = 1
    /\ (idx = 1 /\ pc = "loop") => InFolder(fs, COMBINED_FOLDER) = InFolder(fs0, COMBINED_FOLDER)
    /\ Cardinality({k \in Pos : trace[k].op = "error_entry" /\ trace[k].entry = 1}) = 1
    /\ pc \in {"purge_combined", "done"} =>
          \A i \in 2..Len(data) : \E k \in Pos : trace[k].op = "entry" /\ trace[k].entry = i
    /\ pc # "raised"

\* C9 as stated, for every such entry
C9_Original == C9_Case => C9_Outcome

\* C9 amended: for such an entry whose takenAt parses and whose secondary,
\* when it is a .webp, can be converted
C9_MissingPrimary ==
    (/\ C9_Case
     /\ Strptime(data[1].takenAt).ok
     /\ Suffix(SecondaryOf(1)[2]) = WEBP => Decodable(fs0[SecondaryOf(1)]))
    => C9_Outcome

\* such an entry came first, a second entry followed and produced its
\* composite, and the run ended
C9_Witness ==
    /\ C9_Case
    /\ Strptime(data[1].takenAt).ok
    /\ Suffix(SecondaryOf(1)[2]) = WEBP
    /\ pc = "done"
    /\ Len(data) = 2
    /\ \E k \in CreationsOf(1) : trace[k].op = "move"
    /\ \E k \in Pos : trace[k].op = "entry" /\ trace[k].entry = 2

-----------------------------------------------------------------------------
(* C10 *)

\* C10: the input folder is read-only: when the run has ended every file
\* that was in it is still there with its content, and nothing the run
\* created is left in it.
C10_Claim ==
    Ended =>
        /\ \A p \in InFolder(fs0, PHOTO_FOLDER) : Exists(fs, p) /\ fs[p] = fs0[p]
        /\ InFolder(fs, PHOTO_FOLDER) \subseteq InFolder(fs0, PHOTO_FOLDER)

====
